---- MODULE Spec2Model ----
(***************************************************************************)
(* Model of the workforce scheduler of src/workforce_strategies.py:        *)
(* the WorkforceManager (agent registry, task registry, pending queue),    *)
(* its three assignment strategies and the event log.                      *)
(*                                                                         *)
(* Python dicts are modelled as a function (the mapping) together with a   *)
(* sequence of keys (the insertion order that dict.values() iterates in).  *)
(* Python lists are sequences.  An exception that leaves a public method   *)
(* is modelled as the return value "raised"; the assignments made before   *)
(* the raise stay in the state, as they do in the program.                 *)
(*                                                                         *)
(* Specifications:                                                         *)
(*   Spec          the public calls of a manager without event handlers    *)
(*   SpecEvents    the same calls, with the published events kept in a log *)
(*   SpecHandlers  the public calls and add_event_handler                  *)
(*   SpecReentrant the public calls with handlers that use the manager     *)
(*   SpecProgress  a fixed set of agents, submissions, and a driver that   *)
(*                 ends every task in progress (with fairness)             *)
(*   SpecUnique    the public calls of callers that keep task ids unique   *)
(*   SpecReregister  the public calls with an agent id registered again    *)
(*                 with other capabilities                                 *)
(*   SpecStrategy  the three strategies called directly on candidate lists *)
(***************************************************************************)
EXTENDS Integers, Sequences, FiniteSets, TLC

(***************************************************************************)
(* Bounds of the model and the inputs the callers draw from.               *)
(***************************************************************************)
\* the agents a caller constructs: id, capability list and is_active flag
AgentInputs == {[id |-> "a1", capabilities |-> {"x"}, is_active |-> TRUE],
                [id |-> "a2", capabilities |-> {"x", "y"}, is_active |-> TRUE],
                [id |-> "a2", capabilities |-> {"x", "y"}, is_active |-> FALSE]}
AgentIds == {ag.id : ag \in AgentInputs}
\* the tasks a caller constructs: id and requirement list (the dependency
\* list is any set of task ids)
TaskInputs == {[id |-> "t1", requirements |-> {"x"}],
               [id |-> "t2", requirements |-> {"x"}],
               [id |-> "t3", requirements |-> {"y"}]}
TaskIds == {tk.id : tk \in TaskInputs}
\* max_concurrent_tasks of a constructed agent ranges over 1..MaxConcurrent
MaxConcurrent == 2
\* the callers make at most MaxCalls public calls
MaxCalls == 5
\* the callers register at most MaxHandlers event handlers
MaxHandlers == 2

None == "None"
PENDING == "pending"
IN_PROGRESS == "in_progress"
COMPLETED == "completed"
FAILED == "failed"
CANCELLED == "cancelled"
TaskStatus == {PENDING, IN_PROGRESS, COMPLETED, FAILED, CANCELLED}

\* the event types the manager publishes
EventTypes ==
    {"agent_registered", "agent_removed", "task_submitted", "task_assigned",
     "task_completed", "task_failed"}

\* the handlers a caller registers: one that returns, one that raises an Exception
Handlers == {"recorder", "faulty"}

\* the handlers that use the manager from inside the call that publishes:
\* one that reads the queue and the registry, one that calls complete_task
\* and one that calls fail_task on the task of the event
ReentrantHandlers == {"observer", "completer", "failer"}

RoundRobinStrategy == "RoundRobinStrategy"
CapabilityBasedStrategy == "CapabilityBasedStrategy"
PriorityBasedStrategy == "PriorityBasedStrategy"
Strategies == {RoundRobinStrategy, CapabilityBasedStrategy, PriorityBasedStrategy}

VARIABLES
    agents,               \* WorkforceManager.agents: id -> Agent
    agent_order,          \* key order of the agents dict
    tasks,                \* WorkforceManager.tasks: id -> Task
    task_order,           \* key order of the tasks dict
    task_queue,           \* WorkforceManager.task_queue
    strategy,             \* which WorkforceStrategy the manager was built with
    last_assigned_index,  \* RoundRobinStrategy.last_assigned_index
    emitted,              \* events published by the last public call, in order
    last,                 \* the last public call: operation and return value
    calls,                \* number of public calls made so far
    completions,          \* per agent id: the callers' complete_task calls that returned
                          \* True on its tasks since the agent was registered
    failures,             \* per agent id: the callers' fail_task calls that returned
                          \* True on its tasks since the agent was registered
    picked,               \* the last direct call of strategy.assign_task: its
                          \* arguments and the agent it returned
    event_log,            \* every event published since construction, in order
                          \* (kept by the specification SpecEvents only)
    event_handlers,       \* WorkforceManager.event_handlers: event type -> handlers
    delivered             \* the handler calls made during the last public call, in the
                          \* order they ended

vars == <<agents, agent_order, tasks, task_order, task_queue, strategy,
          last_assigned_index, emitted, last, calls, completions, failures, picked,
          event_log, event_handlers, delivered>>

(***************************************************************************)
(* Sequence helpers (list.remove, `in`).                                   *)
(***************************************************************************)
Elems(s) == {s[i] : i \in 1..Len(s)}

\* list.remove(x): drops the first occurrence of x (x is known to occur)
ListRemove(s, x) ==
    LET i == CHOOSE k \in 1..Len(s) : s[k] = x /\ \A j \in 1..(k-1) : s[j] # x
    IN  SubSeq(s, 1, i-1) \o SubSeq(s, i+1, Len(s))

\* dict[key] = value on the key order: a new key goes last, an old key stays
DictInsert(order, key) == IF key \in Elems(order) THEN order ELSE Append(order, key)

\* del dict[key]
DictDelete(order, key) == SelectSeq(order, LAMBDA k : k # key)

\* f with key mapped to val (key may be new)
MapPut(f, key, val) == [k \in DOMAIN f \cup {key} |-> IF k = key THEN val ELSE f[k]]

\* f without key
MapDel(f, key) == [k \in DOMAIN f \ {key} |-> f[k]]

(***************************************************************************)
(* Entity model.                                                           *)
(***************************************************************************)
\* Task(id, description, requirements, dependencies=...) as constructed by a caller
Task(requirements, dependencies) ==
    [requirements |-> requirements,
     priority |-> 1,
     dependencies |-> dependencies,
     status |-> PENDING,
     assigned_agent |-> None,
     result |-> None,
     failure_reason |-> None]

\* Agent(id, name, role, capabilities, max_concurrent_tasks=...) as constructed by a caller;
\* total_tasks = 0 stands for an empty performance_metrics dict; success_rate
\* is the stored quotient successful / total as <<numerator, denominator>>
Agent(capabilities, max_concurrent_tasks, is_active) ==
    [capabilities |-> capabilities,
     max_concurrent_tasks |-> max_concurrent_tasks,
     current_tasks |-> <<>>,
     total_tasks |-> 0,
     successful_tasks |-> 0,
     success_rate |-> <<0, 1>>,
     is_active |-> is_active]

\* the manager's mutable state as one value, threaded through the helpers
Manager ==
    [agents |-> agents, agent_order |-> agent_order,
     tasks |-> tasks, task_order |-> task_order,
     task_queue |-> task_queue,
     strategy |-> strategy,
     last_assigned_index |-> last_assigned_index,
     event_handlers |-> event_handlers,
     emitted |-> <<>>,
     delivered |-> <<>>]

\* a handler may call back into the manager
RECURSIVE complete_task(_, _, _, _)
RECURSIVE fail_task(_, _, _)

\* what an observer reads: the queue and the status of every task, as pairs
\* <<task id, status>>
Observation(m) ==
    [task_queue |-> m.task_queue,
     status |-> {<<t, m.tasks[t].status>> : t \in DOMAIN m.tasks}]

\* handler(event_type, data): the state the handler leaves and the record of
\* the call (whether it raised, what the manager returned to it, what it read)
CallHandler(m, handler, event) ==
    LET call == [handler |-> handler, event |-> event, raised |-> FALSE,
                 returned |-> None, observed |-> <<>>]
    IN  CASE handler = "faulty" ->
                 [m |-> m, call |-> [call EXCEPT !.raised = TRUE]]
          [] handler = "observer" ->
                 [m |-> m, call |-> [call EXCEPT !.observed = <<Observation(m)>>]]
          [] handler \in {"completer", "failer"} /\ event.task_id = None ->
                 [m |-> m, call |-> [call EXCEPT !.raised = TRUE]]
          [] handler = "completer" /\ event.task_id # None ->
                 LET r == complete_task(m, m.strategy, event.task_id, "result")
                 IN  [m |-> r.m,
                      call |-> [call EXCEPT !.raised = (r.ret = "raised"), !.returned = r.ret]]
          [] handler = "failer" /\ event.task_id # None ->
                 LET r == fail_task(m, event.task_id, "reason")
                 IN  [m |-> r.m,
                      call |-> [call EXCEPT !.raised = (r.ret = "raised"), !.returned = r.ret]]
          [] OTHER -> [m |-> m, call |-> call]

\* the loop of _emit_event over the handlers of the event's type, at
\* position i: a handler that raises is caught and reported, and the loop
\* goes on; each call is recorded when it ends
RECURSIVE EmitLoop(_, _, _)
EmitLoop(m, event, i) ==
    IF i > Len(m.event_handlers[event.type])
    THEN m
    ELSE LET r == CallHandler(m, m.event_handlers[event.type][i], event)
         IN  EmitLoop([r.m EXCEPT !.delivered = Append(@, r.call)], event, i + 1)

\* variant: the try encloses the loop, the first handler that raises ends it
_emit_event_StopsAtFailure(m, event_type, task_id, agent_id) ==
    LET event == [type |-> event_type, task_id |-> task_id, agent_id |-> agent_id]
        handlers == m.event_handlers[event_type]
        reached == {i \in 1..Len(handlers) : \A j \in 1..(i-1) : handlers[j] # "faulty"}
        m1 == EmitLoop([m EXCEPT !.emitted = Append(@, event),
                                 !.event_handlers[event_type] =
                                     SubSeq(handlers, 1, Cardinality(reached))],
                       event, 1)
    IN  [m1 EXCEPT !.event_handlers[event_type] = handlers]

\* _emit_event: the published event is recorded, and every handler registered
\* for its type is called in list order (an event type without handlers has
\* the empty list)
_emit_event(m, event_type, task_id, agent_id) ==
    LET event == [type |-> event_type, task_id |-> task_id, agent_id |-> agent_id]
    IN  EmitLoop([m EXCEPT !.emitted = Append(@, event)], event, 1)

(***************************************************************************)
(* Assignment strategies.  Each returns the chosen agent id (or None), the  *)
(* round-robin cursor after the call, and its arguments (the task and the  *)
(* agents) as the call leaves them.                                        *)
(***************************************************************************)
\* all(req in agent.capabilities for req in task.requirements)
Capable(task, agent) == \A req \in task.requirements : req \in agent.capabilities

\* performance_metrics.get('success_rate', 0.0) as a fraction <<numerator, denominator>>
success_rate(agent) ==
    IF agent.total_tasks > 0 THEN agent.success_rate ELSE <<0, 1>>

RateLess(r1, r2) == r1[1] * r2[2] < r2[1] * r1[2]

\* max(seq, key=...): the first element whose key no other element exceeds
PyMax(s, ags) ==
    LET i == CHOOSE k \in 1..Len(s) :
                 /\ \A j \in 1..Len(s) : ~RateLess(success_rate(ags[s[k]]), success_rate(ags[s[j]]))
                 /\ \A j \in 1..(k-1) : RateLess(success_rate(ags[s[j]]), success_rate(ags[s[k]]))
    IN  s[i]

\* min(seq, key=len(current_tasks)): the first element with the least load
PyMin(s, ags) ==
    LET i == CHOOSE k \in 1..Len(s) :
                 /\ \A j \in 1..Len(s) : Len(ags[s[k]].current_tasks) <= Len(ags[s[j]].current_tasks)
                 /\ \A j \in 1..(k-1) : Len(ags[s[j]].current_tasks) > Len(ags[s[k]].current_tasks)
    IN  s[i]

\* variant: the cursor is read but the advanced value is not stored
RoundRobin_assign_task_CursorNotStored(task, available_agents, ags, idx) ==
    IF available_agents = <<>>
    THEN [agent |-> None, idx |-> idx, task |-> task, agents |-> ags]
    ELSE LET next == (idx + 1) % Len(available_agents)
         IN  [agent |-> available_agents[next + 1], idx |-> idx,
              task |-> task, agents |-> ags]

RoundRobin_assign_task(task, available_agents, ags, idx) ==
    IF available_agents = <<>>
    THEN [agent |-> None, idx |-> idx, task |-> task, agents |-> ags]
    ELSE LET next == (idx + 1) % Len(available_agents)
         IN  [agent |-> available_agents[next + 1], idx |-> next,
              task |-> task, agents |-> ags]

\* variant: min instead of max of the success rates
CapabilityBased_assign_task_Worst(task, available_agents, ags, idx) ==
    LET suitable_agents == SelectSeq(available_agents, LAMBDA a : Capable(task, ags[a]))
        worst == CHOOSE k \in 1..Len(suitable_agents) :
                     /\ \A j \in 1..Len(suitable_agents) :
                            ~RateLess(success_rate(ags[suitable_agents[j]]),
                                      success_rate(ags[suitable_agents[k]]))
                     /\ \A j \in 1..(k-1) :
                            RateLess(success_rate(ags[suitable_agents[k]]),
                                     success_rate(ags[suitable_agents[j]]))
    IN  IF suitable_agents = <<>>
        THEN [agent |-> None, idx |-> idx, task |-> task, agents |-> ags]
        ELSE [agent |-> suitable_agents[worst], idx |-> idx, task |-> task, agents |-> ags]

CapabilityBased_assign_task(task, available_agents, ags, idx) ==
    LET suitable_agents == SelectSeq(available_agents, LAMBDA a : Capable(task, ags[a]))
    IN  IF suitable_agents = <<>>
        THEN [agent |-> None, idx |-> idx, task |-> task, agents |-> ags]
        ELSE [agent |-> PyMax(suitable_agents, ags), idx |-> idx, task |-> task, agents |-> ags]

\* variant: the strategy books the task on the agent it returns
PriorityBased_assign_task_BooksTask(task, available_agents, ags, idx) ==
    LET suitable_agents ==
            SelectSeq(available_agents,
                      LAMBDA a : /\ Capable(task, ags[a])
                                 /\ Len(ags[a].current_tasks) < ags[a].max_concurrent_tasks)
        chosen == PyMin(suitable_agents, ags)
    IN  IF suitable_agents = <<>>
        THEN [agent |-> None, idx |-> idx, task |-> task, agents |-> ags]
        ELSE [agent |-> chosen, idx |-> idx, task |-> task,
              agents |-> [ags EXCEPT ![chosen].current_tasks = Append(@, "booked")]]

\* variant: the capacity test is left out of the filter
PriorityBased_assign_task_NoCapacity(task, available_agents, ags, idx) ==
    LET suitable_agents == SelectSeq(available_agents, LAMBDA a : Capable(task, ags[a]))
    IN  IF suitable_agents = <<>>
        THEN [agent |-> None, idx |-> idx, task |-> task, agents |-> ags]
        ELSE [agent |-> PyMin(suitable_agents, ags), idx |-> idx, task |-> task, agents |-> ags]

PriorityBased_assign_task(task, available_agents, ags, idx) ==
    LET suitable_agents ==
            SelectSeq(available_agents,
                      LAMBDA a : /\ Capable(task, ags[a])
                                 /\ Len(ags[a].current_tasks) < ags[a].max_concurrent_tasks)
    IN  IF suitable_agents = <<>>
        THEN [agent |-> None, idx |-> idx, task |-> task, agents |-> ags]
        ELSE [agent |-> PyMin(suitable_agents, ags), idx |-> idx, task |-> task, agents |-> ags]

\* self.strategy.assign_task(task, available_agents)
assign_task(strat, task, available_agents, ags, idx) ==
    CASE strat = RoundRobinStrategy -> RoundRobin_assign_task(task, available_agents, ags, idx)
      [] strat = CapabilityBasedStrategy -> CapabilityBased_assign_task(task, available_agents, ags, idx)
      [] strat = PriorityBasedStrategy -> PriorityBased_assign_task(task, available_agents, ags, idx)

(***************************************************************************)
(* Scheduler core: internal steps.                                         *)
(***************************************************************************)
\* variant: the capacity test is left out
_get_available_agents_NoCapacity(m) ==
    SelectSeq(m.agent_order, LAMBDA a : m.agents[a].is_active)

_get_available_agents(m) ==
    SelectSeq(m.agent_order,
              LAMBDA a : /\ m.agents[a].is_active
                         /\ Len(m.agents[a].current_tasks) < m.agents[a].max_concurrent_tasks)

_assign_task_to_agent(m, task_id, agent_id) ==
    LET m1 == [m EXCEPT !.tasks[task_id].assigned_agent = agent_id,
                        !.tasks[task_id].status = IN_PROGRESS,
                        !.agents[agent_id].current_tasks = Append(@, task_id)]
    IN  _emit_event(m1, "task_assigned", task_id, agent_id)

\* the second loop of _process_task_queue: task_queue.remove(id) for each
\* processed id; list.remove raises ValueError on an id that is not in the
\* queue (any more), with the ids before it removed
RECURSIVE RemoveProcessed(_, _)
RemoveProcessed(queue, processed_tasks) ==
    IF processed_tasks = <<>>
    THEN [queue |-> queue, raised |-> FALSE]
    ELSE IF Head(processed_tasks) \notin Elems(queue)
    THEN [queue |-> queue, raised |-> TRUE]
    ELSE RemoveProcessed(ListRemove(queue, Head(processed_tasks)), Tail(processed_tasks))

\* the first loop of _process_task_queue: a list iterator at position i over
\* the queue as it is now (a handler called from the loop may have changed
\* it); returns the state and whether the second loop raised
RECURSIVE ProcessLoop(_, _, _, _)
ProcessLoop(m, strat, i, processed_tasks) ==
    IF i > Len(m.task_queue)
    THEN LET r == RemoveProcessed(m.task_queue, processed_tasks)
         IN  [m |-> [m EXCEPT !.task_queue = r.queue], raised |-> r.raised]
    ELSE LET task_id == m.task_queue[i]
             task == m.tasks[task_id]
         IN  IF task.status # PENDING
             THEN ProcessLoop(m, strat, i + 1, Append(processed_tasks, task_id))
             ELSE LET pick == assign_task(strat, task, _get_available_agents(m),
                                          m.agents, m.last_assigned_index)
                      m1 == [m EXCEPT !.last_assigned_index = pick.idx,
                                      !.agents = pick.agents,
                                      !.tasks[task_id] = pick.task]
                  IN  IF pick.agent # None
                      THEN ProcessLoop(_assign_task_to_agent(m1, task_id, pick.agent),
                                       strat, i + 1, Append(processed_tasks, task_id))
                      ELSE ProcessLoop(m1, strat, i + 1, processed_tasks)

\* variant: the queue is gone through from its tail to its head
_process_task_queue_NewestFirst(m, strat) ==
    LET Reverse(q) == [i \in 1..Len(q) |-> q[Len(q) + 1 - i]]
        r == ProcessLoop([m EXCEPT !.task_queue = Reverse(@)], strat, 1, <<>>)
    IN  [m |-> [r.m EXCEPT !.task_queue = Reverse(@)], raised |-> r.raised]

\* variant: the processed ids are left in the queue
_process_task_queue_KeepsProcessed(m, strat) ==
    LET r == ProcessLoop(m, strat, 1, <<>>)
    IN  [m |-> [r.m EXCEPT !.task_queue = m.task_queue], raised |-> FALSE]

_process_task_queue(m, strat) == ProcessLoop(m, strat, 1, <<>>)

\* variant: the success counter is incremented on a failure as well
_update_agent_metrics_CountsFailure(m, agent_id, success) ==
    LET total == m.agents[agent_id].total_tasks + 1
        successful == m.agents[agent_id].successful_tasks + 1
    IN  [m EXCEPT !.agents[agent_id].total_tasks = total,
                  !.agents[agent_id].successful_tasks = successful,
                  !.agents[agent_id].success_rate =
                      IF total > 0 THEN <<successful, total>> ELSE <<0, 1>>]

_update_agent_metrics(m, agent_id, success) ==
    LET total == m.agents[agent_id].total_tasks + 1
        successful == m.agents[agent_id].successful_tasks + (IF success THEN 1 ELSE 0)
    IN  [m EXCEPT !.agents[agent_id].total_tasks = total,
                  !.agents[agent_id].successful_tasks = successful,
                  !.agents[agent_id].success_rate =
                      IF total > 0 THEN <<successful, total>> ELSE <<0, 1>>]

\* variant: the task is sent back to Pending with assigned_agent left in place
_reassign_task_KeepsAgent(m, task_id) ==
    LET task == m.tasks[task_id]
        owner == task.assigned_agent
    IN  IF owner # None /\ owner \notin DOMAIN m.agents
        THEN [m |-> m, raised |-> TRUE]
        ELSE IF owner # None /\ task_id \notin Elems(m.agents[owner].current_tasks)
        THEN [m |-> m, raised |-> TRUE]
        ELSE LET m1 == IF owner # None
                       THEN [m EXCEPT !.agents[owner].current_tasks = ListRemove(@, task_id)]
                       ELSE m
             IN  [m |-> [m1 EXCEPT !.tasks[task_id].status = PENDING,
                                   !.task_queue = Append(@, task_id)],
                  raised |-> FALSE]

\* _reassign_task: returns the state and whether the call raised
\* (KeyError on a missing agent, ValueError on list.remove of an absent id)
_reassign_task(m, task_id) ==
    LET task == m.tasks[task_id]
        owner == task.assigned_agent
    IN  IF owner # None /\ owner \notin DOMAIN m.agents
        THEN [m |-> m, raised |-> TRUE]
        ELSE IF owner # None /\ task_id \notin Elems(m.agents[owner].current_tasks)
        THEN [m |-> m, raised |-> TRUE]
        ELSE LET m1 == IF owner # None
                       THEN [m EXCEPT !.agents[owner].current_tasks = ListRemove(@, task_id)]
                       ELSE m
             IN  [m |-> [m1 EXCEPT !.tasks[task_id].assigned_agent = None,
                                   !.tasks[task_id].status = PENDING,
                                   !.task_queue = Append(@, task_id)],
                  raised |-> FALSE]

\* the loop of remove_agent: a list iterator at position i over the agent's
\* current_tasks, the very list that _reassign_task shrinks
RECURSIVE RemoveLoop(_, _, _)
RemoveLoop(m, agent_id, i) ==
    IF i > Len(m.agents[agent_id].current_tasks)
    THEN [m |-> m, raised |-> FALSE]
    ELSE LET r == _reassign_task(m, m.agents[agent_id].current_tasks[i])
         IN  IF r.raised THEN r ELSE RemoveLoop(r.m, agent_id, i + 1)

\* the loop of _process_dependent_tasks over tasks.values(), at position i
RECURSIVE DependentLoop(_, _, _)
DependentLoop(m, completed_task_id, i) ==
    IF i > Len(m.task_order)
    THEN m
    ELSE LET id == m.task_order[i]
             task == m.tasks[id]
             all_deps_completed ==
                 \A dep_id \in task.dependencies :
                     dep_id \in DOMAIN m.tasks => m.tasks[dep_id].status = COMPLETED
         IN  IF /\ completed_task_id \in task.dependencies
                /\ task.status = PENDING
                /\ id \notin Elems(m.task_queue)
                /\ all_deps_completed
             THEN DependentLoop([m EXCEPT !.task_queue = Append(@, id)], completed_task_id, i + 1)
             ELSE DependentLoop(m, completed_task_id, i + 1)

_process_dependent_tasks(m, completed_task_id) == DependentLoop(m, completed_task_id, 1)

(***************************************************************************)
(* Scheduler core: public operations.  Each returns the state after the    *)
(* call and the value returned ("True", "False", "None" or "raised").      *)
(***************************************************************************)
\* variant: the queue is processed once the agent is stored
register_agent_Drains(m, agent_id, agent) ==
    LET m1 == [m EXCEPT !.agents = MapPut(@, agent_id, agent),
                        !.agent_order = DictInsert(@, agent_id)]
        m2 == _emit_event(m1, "agent_registered", None, agent_id)
    IN  [m |-> _process_task_queue(m2, strategy).m, ret |-> "None"]

register_agent(m, agent_id, agent) ==
    LET m1 == [m EXCEPT !.agents = MapPut(@, agent_id, agent),
                        !.agent_order = DictInsert(@, agent_id)]
    IN  [m |-> _emit_event(m1, "agent_registered", None, agent_id), ret |-> "None"]

remove_agent(m, agent_id) ==
    IF agent_id \in DOMAIN m.agents
    THEN LET r == RemoveLoop(m, agent_id, 1)
         IN  IF r.raised
             THEN [m |-> r.m, ret |-> "raised"]
             ELSE LET m1 == [r.m EXCEPT !.agents = MapDel(@, agent_id),
                                        !.agent_order = DictDelete(@, agent_id)]
                  IN  [m |-> _emit_event(m1, "agent_removed", None, agent_id), ret |-> "True"]
    ELSE [m |-> m, ret |-> "False"]

\* variant: a dependency only has to be in the registry
DependenciesMet_ExistenceOnly(m, dependencies) ==
    \A dep_id \in dependencies : dep_id \in DOMAIN m.tasks

\* the dependency loop at the head of submit_task
DependenciesMet(m, dependencies) ==
    \A dep_id \in dependencies :
        dep_id \in DOMAIN m.tasks /\ m.tasks[dep_id].status = COMPLETED

submit_task(m, strat, task_id, task) ==
    IF ~DependenciesMet(m, task.dependencies)
    THEN [m |-> m, ret |-> "False"]
    ELSE LET m1 == [m EXCEPT !.tasks = MapPut(@, task_id, task),
                             !.task_order = DictInsert(@, task_id),
                             !.task_queue = Append(@, task_id)]
             m2 == _emit_event(m1, "task_submitted", task_id, None)
             r == _process_task_queue(m2, strat)
         IN  [m |-> r.m, ret |-> IF r.raised THEN "raised" ELSE "True"]

\* the block shared by complete_task and fail_task that releases the agent:
\* returns the state and whether it raised
ReleaseAgent(m, task_id, success) ==
    LET owner == m.tasks[task_id].assigned_agent
    IN  IF owner = None
        THEN [m |-> m, raised |-> FALSE]
        ELSE IF owner \notin DOMAIN m.agents
        THEN [m |-> m, raised |-> TRUE]
        ELSE IF task_id \notin Elems(m.agents[owner].current_tasks)
        THEN [m |-> m, raised |-> TRUE]
        ELSE [m |-> _update_agent_metrics(
                        [m EXCEPT !.agents[owner].current_tasks = ListRemove(@, task_id)],
                        owner, success),
              raised |-> FALSE]

\* variant: the status gate is left out
complete_task_NoStatusGate(m, strat, task_id, result) ==
    IF task_id \notin DOMAIN m.tasks
    THEN [m |-> m, ret |-> "False"]
    ELSE LET m1 == [m EXCEPT !.tasks[task_id].status = COMPLETED,
                             !.tasks[task_id].result = result]
             r == ReleaseAgent(m1, task_id, TRUE)
         IN  IF r.raised
             THEN [m |-> r.m, ret |-> "raised"]
             ELSE LET m2 == _emit_event(r.m, "task_completed", task_id, None)
                      m3 == _process_dependent_tasks(m2, task_id)
                      q == _process_task_queue(m3, strat)
                  IN  [m |-> q.m, ret |-> IF q.raised THEN "raised" ELSE "True"]

\* variant: the queue is not processed again at the end
complete_task_NoDrain(m, strat, task_id, result) ==
    IF task_id \notin DOMAIN m.tasks
    THEN [m |-> m, ret |-> "False"]
    ELSE IF m.tasks[task_id].status # IN_PROGRESS
    THEN [m |-> m, ret |-> "False"]
    ELSE LET m1 == [m EXCEPT !.tasks[task_id].status = COMPLETED,
                             !.tasks[task_id].result = result]
             r == ReleaseAgent(m1, task_id, TRUE)
         IN  IF r.raised
             THEN [m |-> r.m, ret |-> "raised"]
             ELSE LET m2 == _emit_event(r.m, "task_completed", task_id, None)
                  IN  [m |-> _process_dependent_tasks(m2, task_id), ret |-> "True"]

complete_task(m, strat, task_id, result) ==
    IF task_id \notin DOMAIN m.tasks
    THEN [m |-> m, ret |-> "False"]
    ELSE IF m.tasks[task_id].status # IN_PROGRESS
    THEN [m |-> m, ret |-> "False"]
    ELSE LET m1 == [m EXCEPT !.tasks[task_id].status = COMPLETED,
                             !.tasks[task_id].result = result]
             r == ReleaseAgent(m1, task_id, TRUE)
         IN  IF r.raised
             THEN [m |-> r.m, ret |-> "raised"]
             ELSE LET m2 == _emit_event(r.m, "task_completed", task_id, None)
                      m3 == _process_dependent_tasks(m2, task_id)
                      q == _process_task_queue(m3, strat)
                  IN  [m |-> q.m, ret |-> IF q.raised THEN "raised" ELSE "True"]

\* variant: the failed task is put back in the queue for a retry
fail_task_Requeues(m, task_id, reason) ==
    IF task_id \notin DOMAIN m.tasks
    THEN [m |-> m, ret |-> "False"]
    ELSE IF m.tasks[task_id].status # IN_PROGRESS
    THEN [m |-> m, ret |-> "False"]
    ELSE LET m1 == [m EXCEPT !.tasks[task_id].status = FAILED,
                             !.tasks[task_id].failure_reason = reason,
                             !.task_queue = Append(@, task_id)]
             r == ReleaseAgent(m1, task_id, FALSE)
         IN  IF r.raised
             THEN [m |-> r.m, ret |-> "raised"]
             ELSE [m |-> _emit_event(r.m, "task_failed", task_id, None), ret |-> "True"]

fail_task(m, task_id, reason) ==
    IF task_id \notin DOMAIN m.tasks
    THEN [m |-> m, ret |-> "False"]
    ELSE IF m.tasks[task_id].status # IN_PROGRESS
    THEN [m |-> m, ret |-> "False"]
    ELSE LET m1 == [m EXCEPT !.tasks[task_id].status = FAILED,
                             !.tasks[task_id].failure_reason = reason]
             r == ReleaseAgent(m1, task_id, FALSE)
         IN  IF r.raised
             THEN [m |-> r.m, ret |-> "raised"]
             ELSE [m |-> _emit_event(r.m, "task_failed", task_id, None), ret |-> "True"]

add_event_handler(m, event_type, handler) ==
    [m |-> [m EXCEPT !.event_handlers[event_type] = Append(@, handler)], ret |-> "None"]

\* how many tasks of the registry have the given status
CountStatus(m, status) == Cardinality({t \in DOMAIN m.tasks : m.tasks[t].status = status})

\* variant: the pending count takes every task that is not Completed
get_workforce_status_PendingIsNotCompleted(m) ==
    [m |-> m,
     ret |-> [total_agents |-> Cardinality(DOMAIN m.agents),
              active_agents |-> Cardinality({a \in DOMAIN m.agents : m.agents[a].is_active}),
              total_tasks |-> Cardinality(DOMAIN m.tasks),
              pending_tasks |-> Cardinality(DOMAIN m.tasks) - CountStatus(m, COMPLETED),
              in_progress_tasks |-> CountStatus(m, IN_PROGRESS),
              completed_tasks |-> CountStatus(m, COMPLETED),
              failed_tasks |-> CountStatus(m, FAILED),
              queue_length |-> Len(m.task_queue)]]

\* get_workforce_status: the state it leaves and the dict it returns
get_workforce_status(m) ==
    [m |-> m,
     ret |-> [total_agents |-> Cardinality(DOMAIN m.agents),
              active_agents |-> Cardinality({a \in DOMAIN m.agents : m.agents[a].is_active}),
              total_tasks |-> Cardinality(DOMAIN m.tasks),
              pending_tasks |-> CountStatus(m, PENDING),
              in_progress_tasks |-> CountStatus(m, IN_PROGRESS),
              completed_tasks |-> CountStatus(m, COMPLETED),
              failed_tasks |-> CountStatus(m, FAILED),
              queue_length |-> Len(m.task_queue)]]

(***************************************************************************)
(* The state machine: one action per public call.                          *)
(***************************************************************************)
\* the state after a call that left the manager in m and returned ret
Returns(r, op) ==
    /\ agents' = r.m.agents
    /\ agent_order' = r.m.agent_order
    /\ tasks' = r.m.tasks
    /\ task_order' = r.m.task_order
    /\ task_queue' = r.m.task_queue
    /\ last_assigned_index' = r.m.last_assigned_index
    /\ emitted' = r.m.emitted
    /\ event_handlers' = r.m.event_handlers
    /\ delivered' = r.m.delivered
    /\ last' = [op |-> op, ret |-> r.ret]
    /\ UNCHANGED <<strategy, picked>>

\* a call of the callers, who make at most MaxCalls calls
Becomes(r, op) ==
    /\ calls < MaxCalls
    /\ calls' = calls + 1
    /\ Returns(r, op)

\* the tally of a call that returned True on task_id: one more for the agent
\* the task is assigned to
Credit(tally, r, task_id) ==
    IF r.ret = "True" /\ tasks[task_id].assigned_agent # None
    THEN [tally EXCEPT ![tasks[task_id].assigned_agent] = @ + 1]
    ELSE tally

RegisterAgent(agent_id, capabilities, max_concurrent_tasks, is_active) ==
    /\ Becomes(register_agent(Manager, agent_id, Agent(capabilities, max_concurrent_tasks, is_active)),
               "register_agent")
    /\ completions' = [completions EXCEPT ![agent_id] = 0]
    /\ failures' = [failures EXCEPT ![agent_id] = 0]

RemoveAgent(agent_id) ==
    /\ Becomes(remove_agent(Manager, agent_id), "remove_agent")
    /\ completions' = IF agent_id \in DOMAIN agents'
                       THEN completions ELSE [completions EXCEPT ![agent_id] = 0]
    /\ failures' = IF agent_id \in DOMAIN agents'
                    THEN failures ELSE [failures EXCEPT ![agent_id] = 0]

SubmitTask(task_id, requirements, dependencies) ==
    /\ Becomes(submit_task(Manager, strategy, task_id, Task(requirements, dependencies)),
               "submit_task")
    /\ UNCHANGED <<completions, failures>>

CompleteTask(task_id) ==
    LET r == complete_task(Manager, strategy, task_id, "result")
    IN  /\ Becomes(r, "complete_task")
        /\ completions' = Credit(completions, r, task_id)
        /\ UNCHANGED failures

FailTask(task_id) ==
    LET r == fail_task(Manager, task_id, "reason")
    IN  /\ Becomes(r, "fail_task")
        /\ failures' = Credit(failures, r, task_id)
        /\ UNCHANGED completions

\* the handlers registered so far, as (event type, position) pairs
Registered ==
    {p \in EventTypes \X (1..MaxHandlers) : p[2] <= Len(event_handlers[p[1]])}

AddEventHandler(event_type, handler) ==
    /\ Cardinality(Registered) < MaxHandlers
    /\ Becomes(add_event_handler(Manager, event_type, handler), "add_event_handler")
    /\ UNCHANGED <<completions, failures>>

\* no direct call of a strategy has been made
NoPick ==
    [requirements |-> {}, priority |-> 1, available_agents |-> <<>>, agent |-> None,
     task |-> Task({}, {}), same_list |-> TRUE]

Init ==
    /\ agents = <<>>
    /\ agent_order = <<>>
    /\ tasks = <<>>
    /\ task_order = <<>>
    /\ task_queue = <<>>
    /\ strategy \in Strategies
    /\ last_assigned_index = -1
    /\ emitted = <<>>
    /\ last = [op |-> "init", ret |-> "None"]
    /\ calls = 0
    /\ completions = [a \in AgentIds |-> 0]
    /\ failures = [a \in AgentIds |-> 0]
    /\ picked = NoPick
    /\ event_log = <<>>
    /\ event_handlers = [event_type \in EventTypes |-> <<>>]
    /\ delivered = <<>>

Next ==
    \/ \E ag \in AgentInputs, n \in 1..MaxConcurrent :
           RegisterAgent(ag.id, ag.capabilities, n, ag.is_active) /\ UNCHANGED event_log
    \/ \E a \in AgentIds : RemoveAgent(a) /\ UNCHANGED event_log
    \/ \E tk \in TaskInputs, d \in SUBSET TaskIds :
           SubmitTask(tk.id, tk.requirements, d) /\ UNCHANGED event_log
    \/ \E t \in TaskIds : CompleteTask(t) /\ UNCHANGED event_log
    \/ \E t \in TaskIds : FailTask(t) /\ UNCHANGED event_log

Spec == Init /\ [][Next]_vars

(***************************************************************************)
(* The same calls with the published events kept from call to call.        *)
(***************************************************************************)
\* the events of the call are added to the log
Logged == event_log' = event_log \o emitted'

NextEvents ==
    \/ \E ag \in AgentInputs, n \in 1..MaxConcurrent :
           RegisterAgent(ag.id, ag.capabilities, n, ag.is_active) /\ Logged
    \/ \E a \in AgentIds : RemoveAgent(a) /\ Logged
    \/ \E tk \in TaskInputs, d \in SUBSET TaskIds :
           SubmitTask(tk.id, tk.requirements, d) /\ Logged
    \/ \E t \in TaskIds : CompleteTask(t) /\ Logged
    \/ \E t \in TaskIds : FailTask(t) /\ Logged

SpecEvents == Init /\ [][NextEvents]_vars

(***************************************************************************)
(* The same calls made by callers that keep task ids unique: no task is    *)
(* submitted under an id that submit_task has accepted before.             *)
(***************************************************************************)
\* submit_task would accept the task a second time under its id (the
\* registry never loses an id, so it holds every id accepted so far)
AcceptedBefore(task_id, dependencies) ==
    task_id \in DOMAIN tasks /\ DependenciesMet(Manager, dependencies)

NextUnique ==
    \/ \E ag \in AgentInputs, n \in 1..MaxConcurrent :
           RegisterAgent(ag.id, ag.capabilities, n, ag.is_active) /\ UNCHANGED event_log
    \/ \E a \in AgentIds : RemoveAgent(a) /\ UNCHANGED event_log
    \/ \E tk \in TaskInputs, d \in SUBSET TaskIds :
           /\ ~AcceptedBefore(tk.id, d)
           /\ SubmitTask(tk.id, tk.requirements, d)
           /\ UNCHANGED event_log
    \/ \E t \in TaskIds : CompleteTask(t) /\ UNCHANGED event_log
    \/ \E t \in TaskIds : FailTask(t) /\ UNCHANGED event_log

SpecUnique == Init /\ [][NextUnique]_vars

(***************************************************************************)
(* The same calls made by callers that register an agent id again with     *)
(* another capability list.                                                *)
(***************************************************************************)
\* the agents these callers construct: those of AgentInputs and an agent a1
\* with the capability "y" instead of "x"
ReregisterAgentInputs ==
    AgentInputs \cup {[id |-> "a1", capabilities |-> {"y"}, is_active |-> TRUE]}

NextReregister ==
    \/ \E ag \in ReregisterAgentInputs, n \in 1..MaxConcurrent :
           RegisterAgent(ag.id, ag.capabilities, n, ag.is_active) /\ UNCHANGED event_log
    \/ \E a \in AgentIds : RemoveAgent(a) /\ UNCHANGED event_log
    \/ \E tk \in TaskInputs :
           SubmitTask(tk.id, tk.requirements, {}) /\ UNCHANGED event_log
    \/ \E t \in TaskIds : CompleteTask(t) /\ UNCHANGED event_log
    \/ \E t \in TaskIds : FailTask(t) /\ UNCHANGED event_log

SpecReregister == Init /\ [][NextReregister]_vars

(***************************************************************************)
(* The same calls with event handlers: the caller may register handlers    *)
(* at any time.                                                            *)
(***************************************************************************)
\* the agents and tasks of the callers that register handlers: the agent
\* a1, the tasks that require "x", submitted without dependencies
HandlerAgentInputs == {ag \in AgentInputs : ag.id = "a1"}
HandlerTaskInputs == {tk \in TaskInputs : tk.requirements = {"x"}}

\* WorkforceManager(): the default strategy
InitHandlers == Init /\ strategy = CapabilityBasedStrategy

NextHandlers ==
    \/ \E ag \in HandlerAgentInputs, n \in 1..MaxConcurrent :
           RegisterAgent(ag.id, ag.capabilities, n, ag.is_active) /\ UNCHANGED event_log
    \/ \E ag \in HandlerAgentInputs : RemoveAgent(ag.id) /\ UNCHANGED event_log
    \/ \E tk \in HandlerTaskInputs :
           SubmitTask(tk.id, tk.requirements, {}) /\ UNCHANGED event_log
    \/ \E tk \in HandlerTaskInputs : CompleteTask(tk.id) /\ UNCHANGED event_log
    \/ \E tk \in HandlerTaskInputs : FailTask(tk.id) /\ UNCHANGED event_log
    \/ \E event_type \in EventTypes, handler \in Handlers :
           AddEventHandler(event_type, handler) /\ UNCHANGED event_log

SpecHandlers == InitHandlers /\ [][NextHandlers]_vars

(***************************************************************************)
(* A fixed set of active agents under the Capability-Based strategy, the   *)
(* callers submitting tasks under new ids, and an execution driver that    *)
(* calls complete_task or fail_task on the tasks in progress and makes no  *)
(* other call.  The driver's calls are not counted in calls: the driver    *)
(* ends every task in progress, whatever the callers have done.            *)
(***************************************************************************)
ActiveAgentInputs == {ag \in AgentInputs : ag.is_active}

DriverCompletes(task_id) ==
    /\ task_id \in DOMAIN tasks
    /\ tasks[task_id].status = IN_PROGRESS
    /\ LET r == complete_task(Manager, strategy, task_id, "result")
       IN  /\ Returns(r, "complete_task")
           /\ completions' = Credit(completions, r, task_id)
    /\ UNCHANGED <<failures, calls, event_log>>

DriverFails(task_id) ==
    /\ task_id \in DOMAIN tasks
    /\ tasks[task_id].status = IN_PROGRESS
    /\ LET r == fail_task(Manager, task_id, "reason")
       IN  /\ Returns(r, "fail_task")
           /\ failures' = Credit(failures, r, task_id)
    /\ UNCHANGED <<completions, calls, event_log>>

NextProgress ==
    \/ \E ag \in ActiveAgentInputs, n \in 1..MaxConcurrent :
           /\ tasks = <<>>
           /\ ag.id \notin DOMAIN agents
           /\ RegisterAgent(ag.id, ag.capabilities, n, ag.is_active)
           /\ UNCHANGED event_log
    \/ \E tk \in TaskInputs, d \in SUBSET TaskIds :
           /\ tk.id \notin DOMAIN tasks
           /\ SubmitTask(tk.id, tk.requirements, d)
           /\ UNCHANGED event_log
    \/ \E t \in TaskIds : DriverCompletes(t)
    \/ \E t \in TaskIds : DriverFails(t)

\* the driver eventually ends every task in progress, one way or the other
SpecProgress ==
    /\ InitHandlers
    /\ [][NextProgress]_vars
    /\ \A t \in TaskIds : WF_vars(DriverFails(t) \/ DriverCompletes(t))

(***************************************************************************)
(* The same calls with handlers that use the manager while it publishes:   *)
(* an observer of any task event, and handlers of task_assigned that call  *)
(* complete_task or fail_task on the task just assigned.                   *)
(***************************************************************************)
TaskEventTypes == {"task_submitted", "task_assigned", "task_completed", "task_failed"}

NextReentrant ==
    \/ \E ag \in HandlerAgentInputs, n \in 1..MaxConcurrent :
           RegisterAgent(ag.id, ag.capabilities, n, ag.is_active) /\ UNCHANGED event_log
    \/ \E ag \in HandlerAgentInputs : RemoveAgent(ag.id) /\ UNCHANGED event_log
    \/ \E tk \in HandlerTaskInputs :
           SubmitTask(tk.id, tk.requirements, {}) /\ UNCHANGED event_log
    \/ \E tk \in HandlerTaskInputs : CompleteTask(tk.id) /\ UNCHANGED event_log
    \/ \E tk \in HandlerTaskInputs : FailTask(tk.id) /\ UNCHANGED event_log
    \/ \E event_type \in TaskEventTypes :
           AddEventHandler(event_type, "observer") /\ UNCHANGED event_log
    \/ \E handler \in {"completer", "failer"} :
           AddEventHandler("task_assigned", handler) /\ UNCHANGED event_log

SpecReentrant == InitHandlers /\ [][NextReentrant]_vars

(***************************************************************************)
(* The strategies called directly, as the unit tests call them: a caller   *)
(* builds agents, picks a strategy object and calls assign_task on lists   *)
(* of those agents.                                                        *)
(***************************************************************************)
\* what the agents handed to a strategy have been through: their metrics,
\* the tasks they hold and their capacity
AgentProfiles ==
    {[total_tasks |-> 0, successful_tasks |-> 0, current_tasks |-> <<>>,
      max_concurrent_tasks |-> 1],
     [total_tasks |-> 1, successful_tasks |-> 0, current_tasks |-> <<"t1">>,
      max_concurrent_tasks |-> 1],
     [total_tasks |-> 2, successful_tasks |-> 1, current_tasks |-> <<"t1">>,
      max_concurrent_tasks |-> 2],
     [total_tasks |-> 1, successful_tasks |-> 1, current_tasks |-> <<"t1", "t2">>,
      max_concurrent_tasks |-> 2]}

\* the capability list of each agent a caller builds
PoolCapabilities == [a1 |-> {"x"}, a2 |-> {"x", "y"}, a3 |-> {"x", "y"}]
PoolIds == DOMAIN PoolCapabilities

\* an agent of the pool with the given profile
PoolAgent(id, profile) ==
    [Agent(PoolCapabilities[id], profile.max_concurrent_tasks, TRUE)
        EXCEPT !.current_tasks = profile.current_tasks,
               !.total_tasks = profile.total_tasks,
               !.successful_tasks = profile.successful_tasks,
               !.success_rate = IF profile.total_tasks > 0
                                THEN <<profile.successful_tasks, profile.total_tasks>>
                                ELSE <<0, 1>>]

\* the candidate lists a caller passes: the lists of distinct pool agents
CandidateLists ==
    {s \in UNION {[1..n -> PoolIds] : n \in 0..Cardinality(PoolIds)} :
        \A i, j \in 1..Len(s) : i # j => s[i] # s[j]}

\* the tasks a caller passes: requirements and priority
PoolRequirements == {{"x"}, {"y"}}
Priorities == {1, 2}

\* strategy.assign_task(task, available_agents) called by the caller
AssignTask(requirements, priority, available_agents) ==
    LET task == [Task(requirements, {}) EXCEPT !.priority = priority]
        r == assign_task(strategy, task, available_agents, agents, last_assigned_index)
    IN  /\ calls < MaxCalls
        /\ calls' = calls + 1
        /\ last_assigned_index' = r.idx
        /\ agents' = r.agents
        /\ picked' = [requirements |-> requirements,
                      priority |-> priority,
                      available_agents |-> available_agents,
                      agent |-> r.agent,
                      task |-> r.task,
                      same_list |-> /\ picked.same_list
                                    /\ calls > 0 => available_agents = picked.available_agents]
        /\ UNCHANGED <<agent_order, tasks, task_order, task_queue, strategy,
                       emitted, last, completions, failures, event_log,
                       event_handlers, delivered>>

InitStrategy ==
    /\ \E profile \in [PoolIds -> AgentProfiles] :
           agents = [a \in PoolIds |-> PoolAgent(a, profile[a])]
    /\ agent_order = <<>>
    /\ tasks = <<>>
    /\ task_order = <<>>
    /\ task_queue = <<>>
    /\ strategy \in Strategies
    /\ last_assigned_index = -1
    /\ emitted = <<>>
    /\ last = [op |-> "init", ret |-> "None"]
    /\ calls = 0
    /\ completions = [a \in AgentIds |-> 0]
    /\ failures = [a \in AgentIds |-> 0]
    /\ picked = NoPick
    /\ event_log = <<>>
    /\ event_handlers = [event_type \in EventTypes |-> <<>>]
    /\ delivered = <<>>

NextStrategy ==
    \E requirements \in PoolRequirements, priority \in Priorities,
       available_agents \in CandidateLists :
        AssignTask(requirements, priority, available_agents)

SpecStrategy == InitStrategy /\ [][NextStrategy]_vars

(***************************************************************************)
(* Properties.                                                             *)
(***************************************************************************)
\* the manager's registries, queue and strategy cursor (everything but the
\* record of the last call)
core == <<agents, agent_order, tasks, task_order, task_queue, last_assigned_index>>

\* C1: every registered agent holds at most max_concurrent_tasks tasks
C1_Capacity ==
    \A a \in DOMAIN agents :
        Len(agents[a].current_tasks) <= agents[a].max_concurrent_tasks

\* an agent of capacity 2 is full while a task it is capable of waits in the queue
C1_Witness ==
    \E a \in DOMAIN agents :
        /\ agents[a].max_concurrent_tasks = 2
        /\ Len(agents[a].current_tasks) = 2
        /\ \E i \in 1..Len(task_queue) :
               /\ tasks[task_queue[i]].status = PENDING
               /\ Capable(tasks[task_queue[i]], agents[a])

\* C2: every InProgress task names a registered agent whose current_tasks
\* contains the task
C2_InProgressOwned ==
    \A t \in DOMAIN tasks :
        tasks[t].status = IN_PROGRESS =>
            /\ tasks[t].assigned_agent \in DOMAIN agents
            /\ t \in Elems(agents[tasks[t].assigned_agent].current_tasks)

C5_NoFault ==
    last.op \in {"complete_task", "fail_task"} => last.ret \in {"True", "False"}

\* C7: every dependency of every stored task is in the registry and Completed
C7_DependenciesCompleted ==
    \A t \in DOMAIN tasks :
        \A d \in tasks[t].dependencies :
            d \in DOMAIN tasks /\ tasks[d].status = COMPLETED

\* what a call that fails leaves behind: nothing changed, nothing published
NoOp == UNCHANGED core /\ emitted' = <<>>

\* the step taken is a call that fails as C9 describes, or returns False
\* (the operation of the step is tested first, the call is evaluated only then)
C9_Step ==
    /\ \A t \in TaskIds :
          (/\ (t \notin DOMAIN tasks) \/ (tasks[t].status # IN_PROGRESS)
           /\ \/ last'.op = "complete_task" /\ CompleteTask(t)
              \/ last'.op = "fail_task" /\ FailTask(t))
          => (last'.ret = "False" /\ NoOp)
    /\ \A a \in AgentIds :
          (a \notin DOMAIN agents /\ last'.op = "remove_agent" /\ RemoveAgent(a))
          => (last'.ret = "False" /\ NoOp)
    /\ (last'.ret = "False") => NoOp

\* C9: complete_task or fail_task on an id that is unknown or not InProgress,
\* and remove_agent on an unregistered id, return False and change nothing;
\* and every call that returns False changes nothing
C9_FailedCallIsNoOp == [][C9_Step]_vars

\* a complete_task has just returned False in a state where every task of the
\* registry is already Completed or Failed
C9_Witness ==
    /\ last = [op |-> "complete_task", ret |-> "False"]
    /\ DOMAIN tasks # {}
    /\ \A t \in DOMAIN tasks : tasks[t].status \in {COMPLETED, FAILED}
    /\ \E a \in DOMAIN agents : agents[a].total_tasks > 0

\* the tasks held by agent a before the step are Pending, unassigned and at
\* the tail of the queue in the order held, and a is gone
C4_Requeued(a) ==
    LET held == agents[a].current_tasks
    IN  /\ last'.ret = "True"
        /\ a \notin DOMAIN agents'
        /\ \A i \in 1..Len(held) :
               /\ tasks'[held[i]].status = PENDING
               /\ tasks'[held[i]].assigned_agent = None
        /\ task_queue' = task_queue \o held

C4_Step ==
    \A a \in AgentIds :
        (/\ a \in DOMAIN agents
         /\ Len(agents[a].current_tasks) >= 1
         /\ last'.op = "remove_agent"
         /\ RemoveAgent(a))
        => C4_Requeued(a)

\* C4: remove_agent on an agent holding k >= 1 tasks returns True, leaves each
\* of the k tasks Pending, unassigned and appended to the queue in the order
\* held, and the agent is no longer registered
C4_RemoveRequeuesAll == [][C4_Step]_vars

\* C6: in every reachable state, submit_task of a task with a dependency that
\* is missing or not Completed returns False and changes nothing (the task is
\* not stored, no event is published); with every dependency Completed it
\* returns True and the task is stored
C6_SubmitGate ==
    \A tk \in TaskInputs, d \in SUBSET TaskIds :
        LET res == submit_task(Manager, strategy, tk.id, Task(tk.requirements, d))
        IN  IF \E dep \in d : (dep \notin DOMAIN tasks) \/ (tasks[dep].status # COMPLETED)
            THEN res.ret = "False" /\ res.m = Manager
            ELSE /\ res.ret = "True"
                 /\ tk.id \in DOMAIN res.m.tasks
                 /\ res.m.tasks[tk.id].requirements = tk.requirements
                 /\ res.m.tasks[tk.id].dependencies = d

\* a task with a dependency has just been accepted: its dependency is
\* Completed now, and any earlier submission of it was rejected
C6_Witness ==
    /\ last = [op |-> "submit_task", ret |-> "True"]
    /\ \E t \in DOMAIN tasks :
           /\ tasks[t].dependencies # {}
           /\ t \notin tasks[t].dependencies
           /\ emitted[1] = [type |-> "task_submitted", task_id |-> t, agent_id |-> None]

\* the status changes the claim allows
C8_Transitions ==
    {<<PENDING, IN_PROGRESS>>, <<IN_PROGRESS, COMPLETED>>,
     <<IN_PROGRESS, FAILED>>, <<IN_PROGRESS, PENDING>>}

C8_Step ==
    \A t \in DOMAIN tasks :
        /\ tasks[t].status \in {COMPLETED, FAILED} => tasks'[t].status = tasks[t].status
        /\ (tasks'[t].status # tasks[t].status)
               => (<<tasks[t].status, tasks'[t].status>> \in C8_Transitions)

\* C8: a Completed or Failed task keeps its status for ever, and a status
\* only changes Pending->InProgress, InProgress->Completed,
\* InProgress->Failed or InProgress->Pending
C8_TerminalAbsorbing == [][C8_Step]_vars

\* after submit_task or complete_task has returned True, the strategy picks
\* no agent, among the agents now available, for any task that is still
\* Pending in the queue
C10_Drained ==
    (last.op \in {"submit_task", "complete_task"} /\ last.ret = "True")
    => \A i \in 1..Len(task_queue) :
           tasks[task_queue[i]].status = PENDING
           => assign_task(strategy, tasks[task_queue[i]], _get_available_agents(Manager),
                          agents, last_assigned_index).agent = None

\* Capability-Based, a single agent a of capacity 1 that runs t1 while an
\* eligible t2 waits alone in the queue: complete_task(t1) leaves t2
\* InProgress on a and the queue empty
C10_Scenario ==
    \A a \in AgentIds, t1 \in TaskIds, t2 \in TaskIds :
        (/\ strategy = CapabilityBasedStrategy
         /\ agent_order = <<a>>
         /\ agents[a].is_active
         /\ agents[a].max_concurrent_tasks = 1
         /\ agents[a].current_tasks = <<t1>>
         /\ t1 # t2
         /\ tasks[t1].status = IN_PROGRESS
         /\ tasks[t1].assigned_agent = a
         /\ task_queue = <<t2>>
         /\ tasks[t2].status = PENDING
         /\ Capable(tasks[t2], agents[a])
         /\ last'.op = "complete_task"
         /\ CompleteTask(t1))
        => /\ last'.ret = "True"
           /\ tasks'[t2].status = IN_PROGRESS
           /\ tasks'[t2].assigned_agent = a
           /\ agents'[a].current_tasks = <<t2>>
           /\ task_queue' = <<>>

\* C10: when submit_task or complete_task returns True no task is left
\* Pending in the queue that the strategy would assign to an available agent;
\* with one agent of capacity 1 under Capability-Based, the queued eligible
\* task becomes InProgress on it within the complete_task of the first
C10_DrainOnSubmitAndComplete == []C10_Drained /\ [][C10_Scenario]_vars

\* Capability-Based, one agent of capacity 1: complete_task has freed the
\* agent and the drain of the same call has assigned it the queued task
C10_Witness ==
    /\ strategy = CapabilityBasedStrategy
    /\ last = [op |-> "complete_task", ret |-> "True"]
    /\ Len(emitted) = 2
    /\ emitted[2].type = "task_assigned"
    /\ emitted[2].task_id # emitted[1].task_id
    /\ agent_order = <<emitted[2].agent_id>>
    /\ agents[emitted[2].agent_id].max_concurrent_tasks = 1
    /\ agents[emitted[2].agent_id].current_tasks = <<emitted[2].task_id>>
    /\ tasks[emitted[2].task_id].status = IN_PROGRESS
    /\ task_queue = <<>>

\* C11: after fail_task has returned True, the strategy picks no agent, among
\* the agents now available, for any task that is still Pending in the queue
\* (a queued task the freed agent can take is InProgress when the call returns)
C11_DrainOnFail ==
    (last.op = "fail_task" /\ last.ret = "True")
    => \A i \in 1..Len(task_queue) :
           tasks[task_queue[i]].status = PENDING
           => assign_task(strategy, tasks[task_queue[i]], _get_available_agents(Manager),
                          agents, last_assigned_index).agent = None

\* C12 as stated: after fail_task(X), whatever it returns, the queue holds no
\* id it did not hold before and no task that lists X among its dependencies
\* is queued or InProgress
C12_Step ==
    \A X \in TaskIds :
        (last'.op = "fail_task" /\ FailTask(X))
        => /\ Elems(task_queue') \subseteq Elems(task_queue)
           /\ \A Y \in DOMAIN tasks' :
                  X \in tasks'[Y].dependencies
                  => /\ Y \notin Elems(task_queue')
                     /\ tasks'[Y].status # IN_PROGRESS

C12_NoDependentActive == [][C12_Step]_vars

C12_AmendedStep ==
    \A X \in TaskIds :
        (last'.op = "fail_task" /\ FailTask(X))
        => /\ Elems(task_queue') \subseteq Elems(task_queue)
           /\ \A Y \in DOMAIN tasks' :
                  X \in tasks'[Y].dependencies
                  => /\ Y \in Elems(task_queue') => Y \in Elems(task_queue)
                     /\ tasks'[Y].status = IN_PROGRESS
                            => (Y \in DOMAIN tasks /\ tasks[Y].status = IN_PROGRESS)

\* C12 as amended: after fail_task(X), whatever it returns, the queue holds no
\* id it did not hold before, and a task that lists X among its dependencies
\* is queued or InProgress only if it already was before the call
C12_FailEnqueuesNothing == [][C12_AmendedStep]_vars

\* fail_task(X) has just returned True while the registry holds a task that
\* lists X among its dependencies
C12_Witness ==
    /\ last = [op |-> "fail_task", ret |-> "True"]
    /\ Len(emitted) = 1
    /\ emitted[1].type = "task_failed"
    /\ \E Y \in DOMAIN tasks : emitted[1].task_id \in tasks[Y].dependencies

\* C14: a registered agent that has seen N successful complete_task calls and
\* M successful fail_task calls on tasks assigned to it since it was registered
\* has total_tasks = N + M, successful_tasks = N and success_rate = N / (N + M)
\* (no metrics, rate 0.0, when N + M = 0); so successful_tasks <= total_tasks
C14_Metrics ==
    \A a \in DOMAIN agents :
        LET N == completions[a]
            M == failures[a]
            rate == success_rate(agents[a])
        IN  /\ agents[a].total_tasks = N + M
            /\ agents[a].successful_tasks = N
            /\ IF N + M = 0
               THEN rate = <<0, 1>>
               ELSE rate[2] > 0 /\ rate[1] * (N + M) = N * rate[2]
            /\ agents[a].successful_tasks <= agents[a].total_tasks

\* an agent has both completed a task and failed one
C14_Witness ==
    \E a \in DOMAIN agents :
        /\ completions[a] >= 1
        /\ failures[a] >= 1
        /\ agents[a].total_tasks = 2

\* C15: Round-Robin, from a fresh strategy: while every call so far passed the
\* same non-empty list of length n, the k-th call returned the candidate at
\* index (k-1) mod n, whatever the task requires; whatever lists were passed,
\* the last call returned a member of its list, and None for an empty list
C15_RoundRobin ==
    (strategy = RoundRobinStrategy /\ calls >= 1)
    => LET list == picked.available_agents
           n == Len(list)
       IN  /\ (picked.same_list /\ n > 0) => picked.agent = list[((calls - 1) % n) + 1]
           /\ n > 0 => picked.agent \in Elems(list)
           /\ n = 0 => picked.agent = None

\* the third call with the same list of two agents has returned the first of
\* them again, for a task it is not capable of
C15_Witness ==
    /\ strategy = RoundRobinStrategy
    /\ calls = 3
    /\ picked.same_list
    /\ Len(picked.available_agents) = 2
    /\ picked.agent = picked.available_agents[1]
    /\ ~(picked.requirements \subseteq agents[picked.agent].capabilities)

\* the positions of the last candidate list whose agent has every capability
\* the task requires
Eligible ==
    {i \in 1..Len(picked.available_agents) :
        picked.requirements \subseteq agents[picked.available_agents[i]].capabilities}

\* success rate as a fraction: the stored rate, 0.0 for an agent with no metrics
RateOf(i) ==
    LET agent == agents[picked.available_agents[i]]
    IN  IF agent.total_tasks = 0 THEN <<0, 1>> ELSE <<agent.successful_tasks, agent.total_tasks>>

\* C16: Capability-Based returns None iff no candidate is capability-eligible;
\* otherwise the first candidate, in list order, among the eligible ones of
\* maximum success rate
C16_CapabilityBased ==
    (strategy = CapabilityBasedStrategy /\ calls >= 1)
    => /\ (picked.agent = None) <=> (Eligible = {})
       /\ Eligible # {}
          => \E i \in Eligible :
                 /\ picked.agent = picked.available_agents[i]
                 /\ \A j \in Eligible : RateOf(j)[1] * RateOf(i)[2] <= RateOf(i)[1] * RateOf(j)[2]
                 /\ \A j \in Eligible :
                        j < i => RateOf(j)[1] * RateOf(i)[2] < RateOf(i)[1] * RateOf(j)[2]

\* the agent returned is the second of two eligible candidates of equal,
\* maximal rate above zero that follow an eligible candidate of lower rate
C16_Witness ==
    /\ strategy = CapabilityBasedStrategy
    /\ calls >= 1
    /\ Len(picked.available_agents) = 3
    /\ Eligible = {1, 2, 3}
    /\ picked.agent = picked.available_agents[2]
    /\ RateOf(2) = RateOf(3)
    /\ RateOf(1)[1] = 0

\* the positions of the last candidate list whose agent is capability-eligible
\* and holds fewer tasks than its capacity
EligibleWithCapacity ==
    {i \in Eligible :
        Len(agents[picked.available_agents[i]].current_tasks)
            < agents[picked.available_agents[i]].max_concurrent_tasks}

LoadOf(i) == Len(agents[picked.available_agents[i]].current_tasks)

\* C17: Priority/Load-Based returns None iff no candidate is both
\* capability-eligible and under capacity; otherwise the first candidate, in
\* list order, among those of minimum load; the formula does not mention the
\* task's priority and holds for each priority passed
C17_PriorityBased ==
    (strategy = PriorityBasedStrategy /\ calls >= 1)
    => /\ (picked.agent = None) <=> (EligibleWithCapacity = {})
       /\ EligibleWithCapacity # {}
          => \E i \in EligibleWithCapacity :
                 /\ picked.agent = picked.available_agents[i]
                 /\ \A j \in EligibleWithCapacity : LoadOf(i) <= LoadOf(j)
                 /\ \A j \in EligibleWithCapacity : j < i => LoadOf(i) < LoadOf(j)

\* a task of priority 2 and three capable candidates: the first is at its
\* capacity, the other two hold equally many tasks, the second is returned
C17_Witness ==
    /\ strategy = PriorityBasedStrategy
    /\ calls >= 1
    /\ picked.priority = 2
    /\ Len(picked.available_agents) = 3
    /\ Eligible = {1, 2, 3}
    /\ EligibleWithCapacity = {2, 3}
    /\ picked.agent = picked.available_agents[2]
    /\ LoadOf(2) = LoadOf(3)

\* how many events of the given kind a sequence of events holds for task t
EventCount(events, type, t) ==
    Cardinality({i \in 1..Len(events) : events[i].type = type /\ events[i].task_id = t})

\* the order of the events of each task in the log: task_submitted comes
\* before the first task_assigned; a task_completed or task_failed comes after
\* a task_assigned and is the only terminal event of its task
C19_LogOrder ==
    \A i \in 1..Len(event_log) :
        LET e == event_log[i]
        IN  /\ e.type = "task_assigned"
               => \E j \in 1..(i-1) : /\ event_log[j].type = "task_submitted"
                                        /\ event_log[j].task_id = e.task_id
            /\ e.type \in {"task_completed", "task_failed"}
               => /\ \E j \in 1..(i-1) : /\ event_log[j].type = "task_assigned"
                                           /\ event_log[j].task_id = e.task_id
                  /\ \A j \in 1..Len(event_log) :
                         (j # i /\ event_log[j].task_id = e.task_id)
                         => event_log[j].type \notin {"task_completed", "task_failed"}

\* the events of one call: a task that a call returning True has made
\* InProgress, Completed or Failed has exactly one event of that kind among
\* them, and a call that returns False publishes nothing
C19_Step ==
    /\ last'.ret = "True"
       => \A t \in DOMAIN tasks' :
              LET before == IF t \in DOMAIN tasks THEN tasks[t].status ELSE None
                  after == tasks'[t].status
              IN  /\ (after = IN_PROGRESS /\ before # IN_PROGRESS)
                     => EventCount(emitted', "task_assigned", t) = 1
                  /\ (after = COMPLETED /\ before # COMPLETED)
                     => EventCount(emitted', "task_completed", t) = 1
                  /\ (after = FAILED /\ before # FAILED)
                     => EventCount(emitted', "task_failed", t) = 1
    /\ last'.ret = "False" => emitted' = <<>>

\* C19: for every task the published sequence has task_submitted before the
\* first task_assigned, each task_completed or task_failed after a
\* task_assigned and no second terminal event; each assignment, completion
\* and failure publishes exactly one event of its kind, and a call that
\* returns False publishes none
C19_EventOrdering == []C19_LogOrder /\ [][C19_Step]_vars

C20_Step ==
    \A ag \in AgentInputs, n \in 1..MaxConcurrent :
        (/\ last'.op = "register_agent"
         /\ RegisterAgent(ag.id, ag.capabilities, n, ag.is_active))
        => /\ DOMAIN agents' = DOMAIN agents \cup {ag.id}
           /\ agents'[ag.id] = Agent(ag.capabilities, n, ag.is_active)
           /\ \A a \in DOMAIN agents \ {ag.id} : agents'[a] = agents[a]
           /\ emitted' = <<[type |-> "agent_registered", task_id |-> None, agent_id |-> ag.id]>>
           /\ tasks' = tasks
           /\ task_order' = task_order
           /\ task_queue' = task_queue

\* C20: register_agent stores the agent under its id, replacing an agent
\* already registered under it, publishes agent_registered and leaves the
\* task registry (every status and assigned_agent) and the queue unchanged
C20_RegisterFrame == [][C20_Step]_vars

\* register_agent has just replaced the agent of an id that tasks are
\* assigned to, while a Pending task that the new agent is capable of and has
\* room for waits in the queue
C20_Witness ==
    /\ last.op = "register_agent"
    /\ Len(emitted) = 1
    /\ LET a == emitted[1].agent_id
       IN  /\ agents[a].is_active
           /\ agents[a].current_tasks = <<>>
           /\ \E t \in DOMAIN tasks : tasks[t].assigned_agent = a
           /\ \E i \in 1..Len(task_queue) :
                  /\ tasks[task_queue[i]].status = PENDING
                  /\ Capable(tasks[task_queue[i]], agents[a])

\* the handler calls that publishing the given events asks for: for each
\* event in turn, every handler registered for its type, in registration order
RECURSIVE Deliveries(_)
Deliveries(events) ==
    IF events = <<>>
    THEN <<>>
    ELSE LET handlers == event_handlers[Head(events).type]
         IN  [i \in 1..Len(handlers) |-> [handler |-> handlers[i], event |-> Head(events)]]
             \o Deliveries(Tail(events))

\* every handler registered for the type of a published event was called, in
\* registration order, whether or not a handler before it raised
C18_Delivered ==
    [i \in 1..Len(delivered) |-> [handler |-> delivered[i].handler, event |-> delivered[i].event]]
        = Deliveries(emitted)

\* the manager with the handlers that raise taken out
Sound(m) ==
    [m EXCEPT !.event_handlers =
        [event_type \in EventTypes |-> SelectSeq(@[event_type], LAMBDA h : h # "faulty")]]

\* the step has the return value and the registries, queue, metrics and
\* events of the call ref made without failing handlers
SameOutcome(ref) ==
    /\ last'.ret = ref.ret
    /\ agents' = ref.m.agents
    /\ agent_order' = ref.m.agent_order
    /\ tasks' = ref.m.tasks
    /\ task_order' = ref.m.task_order
    /\ task_queue' = ref.m.task_queue
    /\ last_assigned_index' = ref.m.last_assigned_index
    /\ emitted' = ref.m.emitted

C18_Step ==
    /\ \A ag \in AgentInputs, n \in 1..MaxConcurrent :
           (/\ last'.op = "register_agent"
            /\ RegisterAgent(ag.id, ag.capabilities, n, ag.is_active))
           => SameOutcome(register_agent(Sound(Manager), ag.id,
                                         Agent(ag.capabilities, n, ag.is_active)))
    /\ \A a \in AgentIds :
           (last'.op = "remove_agent" /\ RemoveAgent(a))
           => SameOutcome(remove_agent(Sound(Manager), a))
    /\ \A tk \in TaskInputs :
           (last'.op = "submit_task" /\ SubmitTask(tk.id, tk.requirements, {}))
           => SameOutcome(submit_task(Sound(Manager), strategy, tk.id, Task(tk.requirements, {})))
    /\ \A t \in TaskIds :
           (last'.op = "complete_task" /\ CompleteTask(t))
           => SameOutcome(complete_task(Sound(Manager), strategy, t, "result"))
    /\ \A t \in TaskIds :
           (last'.op = "fail_task" /\ FailTask(t))
           => SameOutcome(fail_task(Sound(Manager), t, "reason"))

\* C18: when a handler raises during a publish, every handler registered for
\* that event type is still called, in registration order, and the call of
\* register_agent, remove_agent, submit_task, complete_task or fail_task
\* returns the value and reaches the registries, queue and metrics it reaches
\* with the failing handlers taken out
C18_FaultIsolation == []C18_Delivered /\ [][C18_Step]_vars

\* a call has returned True after a handler raised on one of its events and
\* the handler registered after it was called with the same event
C18_Witness ==
    /\ last.ret = "True"
    /\ \E i, j \in 1..Len(delivered) :
           /\ i < j
           /\ delivered[i].raised
           /\ delivered[j].handler = "recorder"
           /\ delivered[j].event = delivered[i].event

\* C21: in every reachable state get_workforce_status changes nothing, its
\* counts of Pending, InProgress, Completed and Failed tasks add up to
\* total_tasks, no task is Cancelled, and active_agents <= total_agents
C21_StatusCounts ==
    LET r == get_workforce_status(Manager)
        status == r.ret
    IN  /\ r.m = Manager
        /\ status.pending_tasks + status.in_progress_tasks
               + status.completed_tasks + status.failed_tasks = status.total_tasks
        /\ \A t \in DOMAIN tasks : tasks[t].status # CANCELLED
        /\ status.active_agents <= status.total_agents
        /\ status.total_agents = Len(agent_order)
        /\ status.total_tasks = Len(task_order)

\* the registry holds a Failed, an InProgress and a Pending task, and the
\* Pending one is queued
C21_Witness ==
    LET status == get_workforce_status(Manager).ret
    IN  /\ status.failed_tasks = 1
        /\ status.in_progress_tasks = 1
        /\ status.pending_tasks = 1
        /\ status.total_tasks = 3
        /\ status.queue_length = 1
        /\ status.total_agents >= 1

\* the stored task t lies on a cycle of the dependency lists of stored tasks
\* (a task that lists its own id lies on a cycle of length one)
OnDependencyCycle(t) ==
    \E n \in 1..Cardinality(TaskIds) :
        \E path \in [1..n -> DOMAIN tasks] :
            /\ path[1] = t
            /\ \A i \in 1..(n-1) : path[i+1] \in tasks[path[i]].dependencies
            /\ t \in tasks[path[n]].dependencies

C22_Step ==
    \A tk \in TaskInputs, d \in SUBSET TaskIds :
        (/\ tk.id \in d
         /\ last'.op = "submit_task"
         /\ SubmitTask(tk.id, tk.requirements, d))
        => last'.ret = "False"

\* C22: a task whose dependency list closes a cycle is rejected for ever:
\* submit_task of a task that lists its own id returns False in every
\* reachable state, and no task of the registry lies on a cycle of
\* dependency lists
C22_CyclesRejected ==
    [](\A t \in DOMAIN tasks : ~OnDependencyCycle(t)) /\ [][C22_Step]_vars

\* C27: when every task id is accepted by submit_task at most once, after
\* every public call the queue holds no id twice, an id is in the queue iff
\* its task is in the registry with status Pending, and get_workforce_status
\* reports queue_length = pending_tasks
C27_QueueIsPending ==
    LET status == get_workforce_status(Manager).ret
    IN  /\ \A i, j \in 1..Len(task_queue) : i # j => task_queue[i] # task_queue[j]
        /\ \A t \in TaskIds :
               (t \in Elems(task_queue)) <=> (t \in DOMAIN tasks /\ tasks[t].status = PENDING)
        /\ status.queue_length = status.pending_tasks

\* remove_agent has put the task of the removed agent back in the queue,
\* behind a task that was waiting there, and no agent is left
C27_Witness ==
    /\ last = [op |-> "remove_agent", ret |-> "True"]
    /\ Len(task_queue) = 2
    /\ agent_order = <<>>
    /\ Len(task_order) = 2
    /\ task_queue[1] = task_order[2]

C26_Step ==
    /\ agents' = agents
    /\ picked'.task = [Task(picked'.requirements, {}) EXCEPT !.priority = picked'.priority]
    /\ (last_assigned_index' # last_assigned_index)
           => (strategy = RoundRobinStrategy /\ picked'.available_agents # <<>>)

\* C26: assign_task of each of the three strategies leaves the task and every
\* candidate agent (current_tasks, capabilities, metrics, is_active) as they
\* were; only the Round-Robin cursor changes, and only on a call with a
\* non-empty candidate list
C26_StrategiesPure == [][C26_Step]_vars

\* Priority/Load-Based has returned an agent with a free slot, which still
\* holds the one task it held; or Round-Robin was called with an empty list
\* after its cursor had moved
C26_Witness ==
    /\ calls >= 2
    /\ \/ /\ strategy = PriorityBasedStrategy
          /\ picked.agent # None
          /\ agents[picked.agent].current_tasks = <<"t1">>
          /\ agents[picked.agent].max_concurrent_tasks = 2
       \/ /\ strategy = RoundRobinStrategy
          /\ picked.available_agents = <<>>
          /\ last_assigned_index >= 0

\* C28: every id in a registered agent's current_tasks names a task of the
\* registry that is InProgress and assigned to that agent; no id occurs twice
\* in one agent's current_tasks, nor in the current_tasks of two agents
C28_ExclusiveOwnership ==
    /\ \A a \in DOMAIN agents :
           \A i \in 1..Len(agents[a].current_tasks) :
               LET t == agents[a].current_tasks[i]
               IN  /\ t \in DOMAIN tasks
                   /\ tasks[t].status = IN_PROGRESS
                   /\ tasks[t].assigned_agent = a
                   /\ \A j \in 1..Len(agents[a].current_tasks) :
                          j # i => agents[a].current_tasks[j] # t
    /\ \A a, b \in DOMAIN agents :
           a # b => Elems(agents[a].current_tasks) \cap Elems(agents[b].current_tasks) = {}

\* every task_assigned event of the step names a registered, active agent
\* that has every capability the task requires
C25_Step ==
    \A i \in 1..Len(emitted') :
        emitted'[i].type = "task_assigned"
        => LET a == emitted'[i].agent_id
               t == emitted'[i].task_id
           IN  /\ a \in DOMAIN agents'
               /\ agents'[a].is_active
               /\ Capable(tasks'[t], agents'[a])

\* the registered agent an InProgress task is assigned to has every
\* capability the task requires
C25_Covered ==
    \A t \in DOMAIN tasks :
        (tasks[t].status = IN_PROGRESS /\ tasks[t].assigned_agent \in DOMAIN agents)
        => Capable(tasks[t], agents[tasks[t].assigned_agent])

\* C25: under Capability-Based and Priority/Load-Based every assignment gives
\* the task to an active agent whose capabilities include the task's
\* requirements, and the agent an InProgress task is assigned to covers the
\* task's requirements
C25_CapabilitySafety ==
    /\ [](strategy # RoundRobinStrategy => C25_Covered)
    /\ [][strategy # RoundRobinStrategy => C25_Step]_vars

\* the step is a submit_task or complete_task that returned True: its first
\* event names the task submitted or completed, and a pass over the queue
\* followed
DrainStep == last'.op \in {"submit_task", "complete_task"} /\ last'.ret = "True"

\* the queue at the start of the pass
QueueBefore ==
    IF last'.op = "submit_task" THEN Append(task_queue, emitted'[1].task_id) ELSE task_queue

\* the task was Pending at the start of the pass
PendingBefore(t) ==
    IF t = emitted'[1].task_id
    THEN last'.op = "submit_task"
    ELSE tasks[t].status = PENDING

\* the assignments of the pass, in the order they were made
AssignedInPass == SelectSeq(emitted', LAMBDA e : e.type = "task_assigned")

\* the free slots of agent a at the start of the pass
FreeBefore(a) ==
    IF agents'[a].is_active
    THEN agents'[a].max_concurrent_tasks - Len(agents'[a].current_tasks)
         + Cardinality({k \in 1..Len(AssignedInPass) : AssignedInPass[k].agent_id = a})
    ELSE 0

\* the strategy can give task t to agent a when a is available
EligibleFor(t, a) ==
    strategy = RoundRobinStrategy \/ Capable(tasks'[t], agents'[a])

\* the first position of the queue that holds t
FirstAt(q, t) == CHOOSE i \in 1..Len(q) : q[i] = t /\ \A j \in 1..(i-1) : q[j] # t

C24_Step ==
    DrainStep =>
    LET q == QueueBefore
    IN  \* what is left is what is still Pending, in the order it had
        /\ task_queue' = SelectSeq(q, LAMBDA t : tasks'[t].status = PENDING)
        \* the assignments were made in queue order
        /\ \A k, l \in 1..Len(AssignedInPass) :
               k < l => FirstAt(q, AssignedInPass[k].task_id)
                           < FirstAt(q, AssignedInPass[l].task_id)
        \* no task was passed over for an agent that a later task then got
        /\ \A t, u \in Elems(q) :
               (/\ FirstAt(q, t) < FirstAt(q, u)
                /\ PendingBefore(t)
                /\ tasks'[t].status = PENDING)
               => \A k \in 1..Len(AssignedInPass) :
                      AssignedInPass[k].task_id = u
                      => ~EligibleFor(t, AssignedInPass[k].agent_id)
        \* one free slot in all, two tasks eligible for it: the earlier gets it
        /\ \A a \in DOMAIN agents' :
               (/\ FreeBefore(a) = 1
                /\ \A b \in DOMAIN agents' \ {a} : FreeBefore(b) = 0)
               => \A t, u \in Elems(q) :
                      (/\ FirstAt(q, t) < FirstAt(q, u)
                       /\ PendingBefore(t) /\ EligibleFor(t, a)
                       /\ PendingBefore(u) /\ EligibleFor(u, a)
                       /\ \A h \in 1..(FirstAt(q, t) - 1) :
                              ~(PendingBefore(q[h]) /\ EligibleFor(q[h], a)))
                      => /\ tasks'[t].status = IN_PROGRESS
                         /\ tasks'[t].assigned_agent = a
                         /\ tasks'[u].status = PENDING
                         /\ u \in Elems(task_queue')

\* C24: one pass over the queue offers the Pending tasks to the strategy in
\* queue order: of two queued Pending tasks eligible only for the same single
\* free slot the earlier one is assigned; the tasks no agent was found for
\* stay in the queue in their order, and every assigned or non-Pending entry
\* is gone at the end of the pass
C24_FifoDrain == [][C24_Step]_vars

\* complete_task has freed the only slot: the pass gave it to the first of
\* two queued tasks the agent is capable of, the second is still queued
C24_Witness ==
    /\ last = [op |-> "complete_task", ret |-> "True"]
    /\ Len(emitted) = 2
    /\ emitted[2].type = "task_assigned"
    /\ Len(agent_order) = 1
    /\ agents[agent_order[1]].max_concurrent_tasks = 1
    /\ task_queue # <<>>
    /\ tasks[task_queue[1]].status = PENDING
    /\ Capable(tasks[task_queue[1]], agents[agent_order[1]])
    /\ task_order = <<emitted[1].task_id, emitted[2].task_id, task_queue[1]>>

\* C23: a read made by a handler while submit_task, complete_task or
\* fail_task is in progress sees no half-updated state: every id in the queue
\* the handler reads names a task whose status it reads as Pending
C23_ObserverSeesPendingQueue ==
    \A i \in 1..Len(delivered) :
        \A k \in 1..Len(delivered[i].observed) :
            LET seen == delivered[i].observed[k]
            IN  \A j \in 1..Len(seen.task_queue) :
                    <<seen.task_queue[j], PENDING>> \in seen.status

\* C29: with one handler of task_assigned, which calls complete_task (or
\* fail_task) on the task of the event: each of its calls returned True, the
\* submit_task or complete_task that ran the pass returned True, and every
\* task it was called for is Completed (or Failed), not in the queue and not
\* in the current_tasks of the agent it was assigned to
C29_ReentrantCompletion ==
    (/\ event_handlers["task_assigned"] \in {<<"completer">>, <<"failer">>}
     /\ last.op \in {"submit_task", "complete_task"}
     /\ delivered # <<>>)
    => /\ last.ret = "True"
       /\ \A i \in 1..Len(delivered) :
              delivered[i].handler \in {"completer", "failer"}
              => LET t == delivered[i].event.task_id
                     a == delivered[i].event.agent_id
                 IN  /\ delivered[i].returned = "True"
                     /\ tasks[t].status = IF delivered[i].handler = "completer"
                                           THEN COMPLETED ELSE FAILED
                     /\ t \notin Elems(task_queue)
                     /\ a \in DOMAIN agents => t \notin Elems(agents[a].current_tasks)

\* some registered, active agent has every capability the stored task requires
CoveredByAgent(t) ==
    \E a \in DOMAIN agents : agents[a].is_active /\ Capable(tasks[t], agents[a])

\* a Pending task is in the queue while an active agent that covers it has no
\* task, and no task is InProgress
Starved ==
    /\ \A t \in DOMAIN tasks : tasks[t].status # IN_PROGRESS
    /\ \E t \in Elems(task_queue) :
           /\ tasks[t].status = PENDING
           /\ \E a \in DOMAIN agents :
                  /\ agents[a].is_active
                  /\ Capable(tasks[t], agents[a])
                  /\ agents[a].current_tasks = <<>>

\* C30: with a fixed set of active agents, the Capability-Based strategy and
\* a driver that ends every InProgress task, every accepted task some agent
\* covers is eventually Completed or Failed, and the manager never stays in a
\* state where a Pending task is queued, an agent that covers it is idle and
\* no task is InProgress
C30_Progress ==
    /\ \A t \in TaskIds :
           (t \in DOMAIN tasks /\ CoveredByAgent(t))
           ~> (t \in DOMAIN tasks /\ tasks[t].status \in {COMPLETED, FAILED})
    /\ []<>(~Starved)
====
